---- MODULE Spec2Model ----
(***************************************************************************)
(* Heat Wave app: availability probe, data clients with mock fallback,     *)
(* proximity filter / auto-selection and the dashboard session state.      *)
(*                                                                         *)
(* Units.  Coordinates are in hundredths of a degree (100.48 -> 10048),    *)
(* temperatures in hundredths of a degree Celsius, probabilities in        *)
(* 1/6000 (1.0 -> 6000; every probability the code computes from the       *)
(* inputs used here is an integer in this unit).  A polygon centre is kept *)
(* as the pair of coordinate sums and the vertex count n (the mean is      *)
(* sum/n); n = 0 is the NaN centre the code gets from 0/0.                 *)
(*                                                                         *)
(* A value that may be null in the code is a sequence of length <= 1:      *)
(* <<>> is null and <<x>> is x.                                            *)
(*                                                                         *)
(* Zone fields name, confidence and lastUpdate (display strings and a      *)
(* wall-clock stamp) are left out of the zone records.                     *)
(***************************************************************************)
EXTENDS Integers, Sequences, FiniteSets, TLC

Null == <<>>
Some(x) == <<x>>

Min(a, b) == IF a <= b THEN a ELSE b
Max(a, b) == IF a >= b THEN a ELSE b

(***************************************************************************)
(* Bounds of the model.                                                    *)
(***************************************************************************)
\* number of fetchHeatZones calls that are pending at the same time
MaxPending == 2
\* number of selectZone timers that are pending at the same time
MaxTimers == 2
\* day indexes the user picks on the time slider (the slider offers 0..7)
MaxDay == 1
\* number of fetchPrediction / fetchForecast calls that are pending at the
\* same time
MaxCalls == 2
\* the user taps one of the first MaxTap zones shown on the map
MaxTap == 2
\* the history counters fired and geoRequests stop counting at MaxCount
MaxCount == 2
\* longest zone list built from the zone pool of the proximity functions
MaxLen == 3
\* largest days argument of fetchForecast
MaxForecastDays == 8

(***************************************************************************)
(* Program constants.                                                      *)
(***************************************************************************)
\* const PROXIMITY_RADIUS = 1.5 (degrees)
PROXIMITY_RADIUS == 150
\* zones.slice(0, 50)
FALLBACK_SLICE == 50
\* probability 1.0, the cap of Math.min(1, ...)
ProbOne == 6000
\* the last day the time slider offers (NOW, +1D .. +7D)
LAST_DAY == 7
\* the number of records generateMockForecast builds
MOCK_FORECAST_DAYS == 7

(***************************************************************************)
(* GeoMath                                                                 *)
(***************************************************************************)
\* a distance that shrinks the longitude difference with the latitude of the
\* first point (degrees of longitude are shorter away from the equator)
degreeDistanceSqScaled(lat1, lon1, lat2, lon2) ==
    LET dLat == lat1 - lat2
        dLon == ((lon1 - lon2) * (9000 - (IF lat1 < 0 THEN -lat1 ELSE lat1))) \div 9000
    IN  dLat * dLat + dLon * dLon

\* dLat*dLat + dLon*dLon: the square of degreeDistance (sqrt is monotone,
\* so comparisons of distances are comparisons of their squares)
degreeDistanceSq(lat1, lon1, lat2, lon2) ==
    LET dLat == lat1 - lat2
        dLon == lon1 - lon2
    IN  dLat * dLat + dLon * dLon

RECURSIVE CoordSum(_, _)
CoordSum(coords, k) ==
    IF coords = <<>> THEN 0 ELSE Head(coords)[k] + CoordSum(Tail(coords), k)

\* a ring vertex is <<lon, lat>>; the centre is (lat/n, lon/n)
getPolygonCenter(coords) ==
    [lat |-> CoordSum(coords, 2), lon |-> CoordSum(coords, 1), n |-> Len(coords)]

\* n^2 times the squared distance from the user to the centre of the ring
CenterDistSq(loc, coords) ==
    LET c == getPolygonCenter(coords)
    IN  degreeDistanceSq(c.n * loc.latitude, c.n * loc.longitude, c.lat, c.lon)

\* dist < PROXIMITY_RADIUS
WithinRadiusStrict(loc, zone) ==
    LET n == Len(zone.ring)
    IN  /\ n > 0
        /\ CenterDistSq(loc, zone.ring) < (PROXIMITY_RADIUS * n) * (PROXIMITY_RADIUS * n)

\* dist <= PROXIMITY_RADIUS; a NaN distance (empty ring) compares false
WithinRadius(loc, zone) ==
    LET n == Len(zone.ring)
    IN  /\ n > 0
        /\ CenterDistSq(loc, zone.ring) <= (PROXIMITY_RADIUS * n) * (PROXIMITY_RADIUS * n)

\* dist(z1) <= dist(z2)
CloserOrEqual(loc, z1, z2) ==
    LET n1 == Len(z1.ring)
        n2 == Len(z2.ring)
    IN  /\ n1 > 0
        /\ n2 > 0
        /\ CenterDistSq(loc, z1.ring) * (n2 * n2) <= CenterDistSq(loc, z2.ring) * (n1 * n1)

\* dist(z1) < dist(z2) for two zones; NaN on either side compares false
CloserThan(loc, z1, z2) ==
    LET n1 == Len(z1.ring)
        n2 == Len(z2.ring)
    IN  /\ n1 > 0
        /\ n2 > 0
        /\ CenterDistSq(loc, z1.ring) * (n2 * n2) < CenterDistSq(loc, z2.ring) * (n1 * n1)

(***************************************************************************)
(* Zones client: data transformation                                       *)
(***************************************************************************)
riskIntToSeverity(risk) ==
    IF risk >= 3 THEN "critical"
    ELSE IF risk >= 2 THEN "high"
    ELSE IF risk >= 1 THEN "medium"
    ELSE "low"

\* temp in hundredths of a degree, result in 1/6000
tempToProbability(temp) ==
    IF temp >= 4100 THEN Min(ProbOne, 5400 + ((temp - 4100) * 6) \div 5)
    ELSE IF temp >= 3800 THEN 4200 + (temp - 3800) * 4
    ELSE IF temp >= 3500 THEN 3000 + (temp - 3500) * 4
    ELSE IF temp >= 3000 THEN 1800 + ((temp - 3000) * 12) \div 5
    ELSE Max(300, 600 + (temp * 2) \div 5)

GridId(i) == <<"grid-0", "grid-1", "grid-2", "grid-3">>[i + 1]

\* features.map((f, i) => ...): reading f.properties.temperature of a feature
\* without properties, or f.geometry.coordinates of one without geometry,
\* throws a TypeError
FeatureThrows(f) == ~f.hasProperties \/ ~f.hasGeometry

transformApiFeatures(features) ==
    [i \in 1..Len(features) |->
        [id          |-> GridId(i - 1),
         ring        |-> features[i].ring,
         probability |-> tempToProbability(features[i].temperature),
         severity    |-> riskIntToSeverity(features[i].risk_level),
         temperature |-> features[i].temperature]]

(***************************************************************************)
(* Zones client: mock zones                                                *)
(***************************************************************************)
Square(w, s, e, n) == << <<w, s>>, <<e, s>>, <<e, n>>, <<w, n>>, <<w, s>> >>

\* the literal of generateMockZones: base probability, the factor k of
\* seed * k (in hundredths), the severity written in the table, the base
\* temperature and its increment per day
MockTable ==
    << [id |-> "bkk-central",  ring |-> Square(10048, 1372, 10054, 1378),
        base |-> 5100, k |-> 5, severity |-> "critical", temp |-> 4200, dtemp |-> 30],
       [id |-> "bkk-north",    ring |-> Square(10046, 1382, 10056, 1390),
        base |-> 3900, k |-> 8, severity |-> "high",     temp |-> 3900, dtemp |-> 20],
       [id |-> "bkk-east",     ring |-> Square(10058, 1370, 10068, 1380),
        base |-> 3120, k |-> 6, severity |-> "medium",   temp |-> 3700, dtemp |-> 25],
       [id |-> "bkk-thonburi", ring |-> Square(10038, 1370, 10047, 1378),
        base |-> 2700, k |-> 4, severity |-> "medium",   temp |-> 3600, dtemp |-> 15],
       [id |-> "bkk-south",    ring |-> Square(10048, 1360, 10058, 1370),
        base |-> 1800, k |-> 3, severity |-> "low",      temp |-> 3400, dtemp |-> 10],
       [id |-> "cm-city",      ring |-> Square(9894, 1876, 9902, 1882),
        base |-> 4320, k |-> 7, severity |-> "high",     temp |-> 4000, dtemp |-> 35],
       [id |-> "cm-north",     ring |-> Square(9892, 1884, 9904, 1894),
        base |-> 2280, k |-> 4, severity |-> "low",      temp |-> 3500, dtemp |-> 20],
       [id |-> "cm-south",     ring |-> Square(9890, 1868, 9900, 1876),
        base |-> 3300, k |-> 5, severity |-> "medium",   temp |-> 3800, dtemp |-> 15] >>

\* the trailing zones.map of generateMockZones
SeverityOfProbability(p) ==
    IF p >= 4800 THEN "critical"
    ELSE IF p >= 3600 THEN "high"
    ELSE IF p >= 2400 THEN "medium"
    ELSE "low"

\* a generateMockZones without the trailing zones.map
generateMockZonesAsWritten(dayOffset) ==
    [i \in 1..Len(MockTable) |->
        LET row == MockTable[i]
            p   == Min(ProbOne, row.base + 9 * dayOffset * row.k)
        IN  [id          |-> row.id,
             ring        |-> row.ring,
             probability |-> p,
             severity    |-> row.severity,
             temperature |-> row.temp + dayOffset * row.dtemp]]

\* seed = dayOffset * 0.15 is 900 * dayOffset in 1/6000; seed * k with k in
\* hundredths is 9 * dayOffset * k
generateMockZones(dayOffset) ==
    [i \in 1..Len(MockTable) |->
        LET row == MockTable[i]
            p   == Min(ProbOne, row.base + 9 * dayOffset * row.k)
        IN  [id          |-> row.id,
             ring        |-> row.ring,
             probability |-> p,
             severity    |-> SeverityOfProbability(p),
             temperature |-> row.temp + dayOffset * row.dtemp]]

(***************************************************************************)
(* Upstream service and host: the inputs the environment can produce       *)
(***************************************************************************)
\* how a request ends before a response object exists: fetch() rejects
\* (network error, or the abort timer fired), or resolves with a status
HeaderOutcomes == {"neterr", "timeout", "non2xx", "ok"}

\* bodies of a 2xx /api/health response; kind "badjson" is a body res.json()
\* rejects on, kind "null" the JSON text null
HealthBodies ==
    { [kind |-> "badjson", status |-> "ok",    model_loaded |-> TRUE],
      [kind |-> "null",    status |-> "ok",    model_loaded |-> TRUE],
      [kind |-> "object",  status |-> "ok",    model_loaded |-> TRUE],
      [kind |-> "object",  status |-> "ok",    model_loaded |-> FALSE],
      [kind |-> "object",  status |-> "error", model_loaded |-> TRUE] }

Feature(hasG, ring, hasP, temp, risk) ==
    [hasGeometry |-> hasG, ring |-> ring, hasProperties |-> hasP,
     temperature |-> temp, risk_level |-> risk]

\* two grid cells, one near Bangkok and one around (20.0, 100.0)
GoodFeatures ==
    << Feature(TRUE, Square(10047, 1371, 10057, 1381), TRUE, 3900, 2),
       Feature(TRUE, Square(9995, 1995, 10005, 2005), TRUE, 3300, 0) >>

NoGeometryFeatures ==
    << GoodFeatures[1], Feature(FALSE, <<>>, TRUE, 3300, 0) >>

NoPropertiesFeatures ==
    << GoodFeatures[1], Feature(TRUE, GoodFeatures[2].ring, FALSE, 0, 0) >>

MapBody(kind, err, feat, list) ==
    [kind |-> kind, error |-> err, features |-> feat, list |-> list]

\* bodies of a 2xx /api/map response.  error: "absent", "falsy" (null, "",
\* 0, false) or "truthy" (a message); features: "absent", "notArray" (a
\* truthy value without .map) or "array" (then list holds the features)
MapBodies ==
    { MapBody("badjson", "absent", "absent",   <<>>),
      MapBody("null",    "absent", "absent",   <<>>),
      MapBody("object",  "truthy", "array",    GoodFeatures),
      MapBody("object",  "falsy",  "array",    GoodFeatures),
      MapBody("object",  "absent", "absent",   <<>>),
      MapBody("object",  "absent", "notArray", <<>>),
      MapBody("object",  "absent", "array",    <<>>),
      MapBody("object",  "absent", "array",    GoodFeatures),
      MapBody("object",  "absent", "array",    NoGeometryFeatures),
      MapBody("object",  "absent", "array",    NoPropertiesFeatures) }

\* positions the host geolocation API can report
UserLocs ==
    { [latitude |-> 1375, longitude |-> 10050],
      [latitude |-> 1600, longitude |-> 10200] }

Days == 0..MaxDay

\* a closed ring of five vertices whose vertex mean is exactly (lat, lon)
RingAround(lat, lon) ==
    << <<lon - 100, lat - 100>>, <<lon + 150, lat - 100>>, <<lon + 150, lat + 150>>,
       <<lon - 100, lat + 150>>, <<lon - 100, lat - 100>> >>

\* zones for the proximity functions, by the centre of their ring: seen from
\* (13.75, 100.50), "near" is at about 0.022, "tieA" and "tieB" are at the
\* same distance (about 0.354), "edge" at exactly 1.5, "out" at 1.51, "far"
\* at about 6.27; "empty" has a ring without points.  The vertices of
\* "tieA", "tieB" and "edge" are binary fractions, so their centres and
\* distances are the same numbers in floating point
PoolRows ==
    { [id |-> "near",   lat |-> 1376, lon |-> 10052, points |-> TRUE],
      [id |-> "tieA",   lat |-> 1400, lon |-> 10075, points |-> TRUE],
      [id |-> "tieB",   lat |-> 1350, lon |-> 10025, points |-> TRUE],
      [id |-> "edge",   lat |-> 1375, lon |-> 10200, points |-> TRUE],
      [id |-> "out",    lat |-> 1375, lon |-> 10201, points |-> TRUE],
      [id |-> "far",    lat |-> 2000, lon |-> 10000, points |-> TRUE],
      [id |-> "empty",  lat |-> 0,    lon |-> 0,     points |-> FALSE] }

PoolZone(row, temp) ==
    [id          |-> row.id,
     ring        |-> IF row.points THEN RingAround(row.lat, row.lon) ELSE <<>>,
     probability |-> tempToProbability(temp),
     severity    |-> riskIntToSeverity(0),
     temperature |-> temp]

Pool == {PoolZone(row, 3300) : row \in PoolRows}

\* n zones far from every position, told apart by their temperature
FarList(n) ==
    [i \in 1..n |-> PoolZone(CHOOSE row \in PoolRows : row.id = "far", 3300 + i)]

\* the zone lists the proximity functions are applied to: the lists of up
\* to MaxLen different pool zones, and for the filter also lists around the
\* length of the fallback slice
PoolLists ==
    {zs \in UNION {[1..n -> Pool] : n \in 0..MaxLen} :
        \A i, j \in DOMAIN zs : i # j => zs[i] # zs[j]}

ZoneLists ==
    PoolLists \cup {FarList(n) : n \in (FALLBACK_SLICE - 1)..(FALLBACK_SLICE + 1)}

ProxLocs == {Null} \cup {Some(loc) : loc \in UserLocs}

\* zone lists longer than the fallback slice whose last zone, beyond the
\* slice, is the nearest one: "out" (at 1.51) after 50 or 51 far zones
BeyondSliceLists ==
    {Append(FarList(n), PoolZone(CHOOSE row \in PoolRows : row.id = "out", 3300)) :
        n \in FALLBACK_SLICE..(FALLBACK_SLICE + 1)}

\* points degreeDistance is applied to, on both sides of the equator and of
\* the prime meridian
DistPoints ==
    {[lat |-> lat, lon |-> lon] : lat \in {-3387, 0, 1375, 1376},
                                  lon \in {-15121, 0, 10050}}

(***************************************************************************)
(* State                                                                   *)
(***************************************************************************)
VARIABLES
    \* useHeatwaveStore
    zones, nearbyZones, selectedZone, selectedDay, loading, error, region,
    isLive, userLocation, locationRequested,
    \* DashboardScreen (map): mounted, the hasAutoSelected ref, the pending
    \* getCurrentPosition request, the pending setTimeout(selectZone) calls;
    \* fired is history: the number of selectZone timers set since the last
    \* handleDayChange; geoRequests is history: the number of
    \* getCurrentPosition calls made
    mounted, hasAutoSelected, geo, timers, fired, geoRequests,
    \* zones client: the apiAvailable cache and the pending fetchHeatZones
    \* calls, in the order they were made
    apiAvailable, loads,
    \* forecast client: forceMockMode, its apiAvailable cache and the
    \* pending fetchPrediction / fetchForecast calls; freshDue is history:
    \* setUseMockData(false) ended a forced-mock period and no fetch call
    \* was made since
    forceMockMode, fcApiAvailable, calls, freshDue,
    \* history of the zones client: the result of the most recently made
    \* call (null until it resolves), and the value stored by the first
    \* health probe that completed since the cache was last reset
    latest, firstStored,
    \* history of both clients: the last thing a call did that its caller
    \* can observe (a health probe settled, or the call resolved)
    lastEvent

storeVars   == <<zones, nearbyZones, selectedZone, selectedDay, loading, error,
                 region, isLive, userLocation, locationRequested>>
screenVars  == <<mounted, hasAutoSelected, geo, timers, fired, geoRequests>>
zoneCliVars == <<apiAvailable, loads>>
fcVars      == <<forceMockMode, fcApiAvailable, calls, freshDue>>
histVars    == <<firstStored>>
doneVars    == <<lastEvent, latest>>
vars == <<storeVars, screenVars, zoneCliVars, fcVars, histVars, doneVars>>

DEFAULT_REGION ==
    [latitude |-> 137563, longitude |-> 1005018,
     latitudeDelta |-> 50000, longitudeDelta |-> 50000]

Init ==
    /\ zones = <<>>
    /\ nearbyZones = <<>>
    /\ selectedZone = Null
    /\ selectedDay = 0
    /\ loading = TRUE
    /\ error = Null
    /\ region = DEFAULT_REGION
    /\ isLive = FALSE
    /\ userLocation = Null
    /\ locationRequested = FALSE
    /\ mounted = FALSE
    /\ hasAutoSelected = FALSE
    /\ geo = "idle"
    /\ timers = <<>>
    /\ fired = 0
    /\ geoRequests = 0
    /\ apiAvailable = Null
    /\ loads = <<>>
    /\ forceMockMode = Null
    /\ fcApiAvailable = Null
    /\ calls = <<>>
    /\ freshDue = FALSE
    /\ latest = Null
    /\ firstStored = Null
    /\ lastEvent = Null

(***************************************************************************)
(* Zones client: checkApiAvailability and fetchHeatZones                   *)
(*                                                                         *)
(* A pending fetchHeatZones call is a record: day (its dayOffset), pc      *)
(* (where it is suspended), avail (what checkApiAvailability returned to   *)
(* it), storedAtCall (the history value firstStored when it was called),   *)
(* ui (the caller is loadZones of the dashboard) and newest (no call was    *)
(* made after it).  When it resolves it leaves     *)
(* loads and is recorded in lastEvent with its cause and result.            *)
(*   pc: "health"     awaiting fetch(/api/health), abort timer armed       *)
(*       "healthBody" awaiting res.json() of the health response           *)
(*       "delay"      awaiting the 300 ms timer of the mock path           *)
(*       "data"       awaiting fetch(/api/map), abort timer armed          *)
(*       "dataBody"   awaiting res.json() of the map response              *)
(* Continuations of a settled promise run as microtasks, before any other  *)
(* event, so a call moves from one suspension point to the next in one     *)
(* step.  At "health", "delay" and "data" a timer of a fixed delay is      *)
(* armed on entry; rank orders the calls suspended at the same pc by the   *)
(* time they got there (1 is the earliest), and timers of the same delay   *)
(* fire in the order they were armed.                                      *)
(***************************************************************************)
TimedPcs == {"health", "delay", "data"}

\* the rank of a call that gets to pc while the calls of ls are pending
RankIn(ls, pc) ==
    IF pc \in TimedPcs
    THEN 1 + Cardinality({j \in 1..Len(ls) : ls[j].pc = pc})
    ELSE 0

\* call i leaves its suspension point: the calls that got there after it
\* move up
Leave(ls, i) ==
    [j \in 1..Len(ls) |->
        IF j # i /\ ls[j].pc = ls[i].pc /\ ls[j].rank > ls[i].rank
        THEN [ls[j] EXCEPT !.rank = @ - 1]
        ELSE ls[j]]

\* call i goes on to the suspension point pc
MoveTo(ls, i, pc) ==
    LET rest == Leave(ls, i)
        at   == {j \in 1..Len(ls) : j # i /\ ls[j].pc = pc}
    IN  [rest EXCEPT ![i].pc = pc,
                     ![i].rank = IF pc \in TimedPcs THEN 1 + Cardinality(at) ELSE 0]

\* call i resolves
Remove(ls, i) ==
    LET rest == Leave(ls, i)
    IN  SubSeq(rest, 1, i - 1) \o SubSeq(rest, i + 1, Len(rest))

\* data.status === 'ok' && data.model_loaded === true; res.json() rejecting
\* and reading a field of null both end in the catch
HealthBodyAvailable(body) ==
    /\ body.kind = "object"
    /\ body.status = "ok"
    /\ body.model_loaded = TRUE

\* checkApiAvailability when the health request got no 2xx response: the
\* catch (fetch rejected) and the else branch of res.ok
HealthFailure(outcome) == [rejected |-> FALSE, available |-> FALSE]

\* a checkApiAvailability that reads the body outside its try
HealthBodyUncaught(body) ==
    [rejected |-> body.kind \in {"badjson", "null"}, available |-> HealthBodyAvailable(body)]

\* checkApiAvailability when the body of a 2xx health response settled
HealthBodyResult(body) == [rejected |-> FALSE, available |-> HealthBodyAvailable(body)]

\* how a health probe ended, for the history
HealthBodyKind(body) ==
    IF body.kind = "badjson" THEN "badjson"
    ELSE IF body.kind = "null" THEN "nullbody"
    ELSE IF body.status = "ok" /\ body.model_loaded = TRUE THEN "confirmed"
    ELSE "unconfirmed"

\* return { zones: generateMockZones(dayOffset), isLive: false } after the
\* 300 ms delay
UnavailableResult(dayOffset) ==
    [rejected |-> FALSE, zones |-> generateMockZones(dayOffset), isLive |-> FALSE]

\* a fetchHeatZones whose catch rethrows
CatchRethrows(dayOffset) ==
    [rejected |-> TRUE, zones |-> <<>>, isLive |-> FALSE]

\* the catch of fetchHeatZones
CatchFallback(dayOffset) ==
    [rejected |-> FALSE, zones |-> generateMockZones(dayOffset), isLive |-> FALSE]

\* what makes the try block throw once the 2xx response is there
MapBodyThrows(body) ==
    \/ body.kind = "badjson"
    \/ body.kind = "null"
    \/ body.error = "truthy"
    \/ body.features = "notArray"
    \/ /\ body.features = "array"
       /\ \E k \in 1..Len(body.list) : FeatureThrows(body.list[k])

\* const rawFeatures = data.features || []
RawFeatures(body) == IF body.features = "array" THEN body.list ELSE <<>>

LiveResult(body) ==
    [rejected |-> FALSE, zones |-> transformApiFeatures(RawFeatures(body)), isLive |-> TRUE]

MapBodyResult(body, dayOffset) ==
    IF MapBodyThrows(body) THEN CatchFallback(dayOffset) ELSE LiveResult(body)

BodyCause(body) ==
    IF body.kind = "badjson" THEN "badjson"
    ELSE IF body.kind = "null" THEN "nullbody"
    ELSE IF body.error = "truthy" THEN "errorfield"
    ELSE IF body.features = "notArray" THEN "notArray"
    ELSE IF body.features = "absent" THEN "nofeatures"
    ELSE IF \E k \in 1..Len(body.list) : ~body.list[k].hasGeometry THEN "nogeometry"
    ELSE IF \E k \in 1..Len(body.list) : ~body.list[k].hasProperties THEN "noproperties"
    ELSE "ok"

\* fetchHeatZones up to its first suspension: checkApiAvailability returns
\* the cached value or issues the health request; requests lists the
\* requests the call has issued so far
NewLoad(dayOffset, ui) ==
    [day          |-> dayOffset,
     requests     |-> IF apiAvailable = Null THEN <<"health">>
                      ELSE IF apiAvailable[1] THEN <<"data">> ELSE <<>>,
     ui           |-> ui,
     pc           |-> IF apiAvailable = Null THEN "health"
                      ELSE IF apiAvailable[1] THEN "data" ELSE "delay",
     rank         |-> RankIn(loads, IF apiAvailable = Null THEN "health"
                                    ELSE IF apiAvailable[1] THEN "data" ELSE "delay"),
     avail        |-> apiAvailable,
     storedAtCall |-> firstStored,
     newest       |-> TRUE]

\* loads after one more call was made
WithNewLoad(dayOffset, ui) ==
    Append([i \in 1..Len(loads) |-> [loads[i] EXCEPT !.newest = FALSE]],
           NewLoad(dayOffset, ui))

\* the events are recorded for calls made outside the dashboard; the calls
\* of the dashboard are observed through the store
Observed(ui, old, new) == IF ui THEN old ELSE Some(new)

NoResult == [rejected |-> FALSE, zones |-> <<>>, isLive |-> FALSE]

ProbeEvent(kind, rejected, returned, cache) ==
    [type |-> "probe", client |-> "zones", kind |-> kind, day |-> 0,
     rejected |-> rejected, avail |-> Some(returned), cache |-> cache,
     result |-> NoResult]

DoneEvent(kind, day, avail, reqs, res) ==
    [type |-> "done", client |-> "zones", kind |-> kind, day |-> day,
     rejected |-> res.rejected, avail |-> avail, cache |-> apiAvailable,
     requests |-> reqs, result |-> res]

(***************************************************************************)
(* DashboardScreen (map): effects                                          *)
(***************************************************************************)
\* a filter effect that passes the filtered list on even when it is empty
FilterNoFallback(zs, loc) ==
    IF loc = Null \/ Len(zs) = 0 THEN zs
    ELSE SelectSeq(zs, LAMBDA z : WithinRadius(loc[1], z))

\* a filter effect that tests !userLocation && zones.length === 0
FilterNoPassThrough(zs, loc) ==
    IF loc = Null THEN <<>>
    ELSE LET filtered == SelectSeq(zs, LAMBDA z : WithinRadius(loc[1], z))
         IN  IF Len(filtered) > 0 THEN filtered
             ELSE SubSeq(zs, 1, Min(FALLBACK_SLICE, Len(zs)))

\* Step 2, the proximity filter effect: the value it passes to setNearbyZones
FilterNearby(zs, loc) ==
    IF loc = Null \/ Len(zs) = 0 THEN zs
    ELSE LET filtered == SelectSeq(zs, LAMBDA z : WithinRadius(loc[1], z))
         IN  IF Len(filtered) > 0 THEN filtered
             ELSE SubSeq(zs, 1, Min(FALLBACK_SLICE, Len(zs)))

\* the forEach of Step 3: best is closestZone (null while closestDist is
\* Infinity); dist < Infinity holds for every distance that is not NaN
RECURSIVE ClosestScan(_, _, _)
ClosestScan(zs, loc, best) ==
    IF zs = <<>> THEN best
    ELSE LET z == Head(zs)
             closer == IF best = Null THEN Len(z.ring) > 0
                       ELSE CloserThan(loc, z, best[1])
         IN  IF closer THEN ClosestScan(Tail(zs), loc, Some(z))
             ELSE ClosestScan(Tail(zs), loc, best)

\* an auto-select effect without the hasAutoSelected.current test
AutoSelectUnlatched(nearby, loc, latch, tms) ==
    IF loc = Null \/ Len(nearby) = 0
    THEN [latch |-> latch, timers |-> tms]
    ELSE LET closestZone == ClosestScan(nearby, loc[1], Null)
         IN  [latch  |-> TRUE,
              timers |-> IF closestZone # Null THEN Append(tms, closestZone[1]) ELSE tms]

\* Step 3, the auto-select effect, run with the nearbyZones and userLocation
\* of one render: the latch and the pending selectZone timers after it
AutoSelectEffect(nearby, loc, latch, tms) ==
    IF latch \/ loc = Null \/ Len(nearby) = 0
    THEN [latch |-> latch, timers |-> tms]
    ELSE LET closestZone == ClosestScan(nearby, loc[1], Null)
         IN  [latch  |-> TRUE,
              timers |-> IF closestZone # Null THEN Append(tms, closestZone[1]) ELSE tms]

\* fired after an effect run took the timers from tms to after
Fired(tms, after) == Min(MaxCount, fired + (Len(after) - Len(tms)))

\* a loadZones that takes the flag from isApiConnected() instead of the
\* result: setIsLive(isApiConnected())
LoadZonesFlagFromCache(res) ==
    /\ loading' = FALSE
    /\ IF res.rejected
       THEN /\ error' = Some("Failed to load data")
            /\ UNCHANGED <<zones, isLive, nearbyZones, hasAutoSelected, timers, fired>>
       ELSE /\ zones' = res.zones
            /\ isLive' = (apiAvailable = Some(TRUE))
            /\ UNCHANGED error
            /\ IF mounted
               THEN LET nearby == FilterNearby(res.zones, userLocation)
                        auto   == AutoSelectEffect(nearby, userLocation,
                                                   hasAutoSelected, timers)
                    IN  /\ nearbyZones' = nearby
                        /\ hasAutoSelected' = auto.latch
                        /\ timers' = auto.timers
                        /\ fired' = Fired(timers, auto.timers)
               ELSE UNCHANGED <<nearbyZones, hasAutoSelected, timers, fired>>
    /\ UNCHANGED <<selectedZone, selectedDay, region, userLocation,
                   locationRequested, mounted, geo, geoRequests>>

\* loadZones after await fetchHeatZones: setZones, setIsLive (or setError in
\* the catch), setLoading(false); then, while the screen is mounted, the
\* render with the new zones runs Step 2, and the render with the new
\* nearbyZones runs Step 3
LoadZonesContinue(res) ==
    /\ loading' = FALSE
    /\ IF res.rejected
       THEN /\ error' = Some("Failed to load data")
            /\ UNCHANGED <<zones, isLive, nearbyZones, hasAutoSelected, timers, fired>>
       ELSE /\ zones' = res.zones
            /\ isLive' = res.isLive
            /\ UNCHANGED error
            /\ IF mounted
               THEN LET nearby == FilterNearby(res.zones, userLocation)
                        auto   == AutoSelectEffect(nearby, userLocation,
                                                   hasAutoSelected, timers)
                    IN  /\ nearbyZones' = nearby
                        /\ hasAutoSelected' = auto.latch
                        /\ timers' = auto.timers
                        /\ fired' = Fired(timers, auto.timers)
               ELSE UNCHANGED <<nearbyZones, hasAutoSelected, timers, fired>>
    /\ UNCHANGED <<selectedZone, selectedDay, region, userLocation,
                   locationRequested, mounted, geo, geoRequests>>

\* a fetchHeatZones call resolves; its caller loadZones continues in the same
\* turn and the call is observed through the store, a call of another caller
\* is recorded in lastEvent
Complete(i, res, cause) ==
    /\ loads' = Remove(loads, i)
    /\ lastEvent' = Observed(loads[i].ui, lastEvent,
                             DoneEvent(cause, loads[i].day, loads[i].avail,
                                       loads[i].requests, res))
    /\ IF loads[i].ui
       THEN /\ LoadZonesContinue(res)
            /\ latest' = IF loads[i].newest THEN Some(res) ELSE latest
       ELSE UNCHANGED <<storeVars, screenVars, latest>>

(***************************************************************************)
(* Zones client: steps of a pending call                                   *)
(***************************************************************************)
\* checkApiAvailability settles with r after a probe that ended as kind:
\* apiAvailable = r.available; return apiAvailable; then fetchHeatZones goes
\* on to the mock delay or to the data request.  A rejection would leave the
\* cache alone and reject fetchHeatZones, which awaits it outside its try
ProbeSettles(i, r, kind) ==
    IF r.rejected
    THEN /\ Complete(i, [rejected |-> TRUE, zones |-> <<>>, isLive |-> FALSE], kind)
         /\ UNCHANGED <<apiAvailable, firstStored>>
    ELSE /\ apiAvailable' = Some(r.available)
         /\ firstStored' = IF firstStored = Null THEN Some(r.available) ELSE firstStored
         /\ loads' = [MoveTo(loads, i, IF r.available THEN "data" ELSE "delay")
                         EXCEPT ![i].avail = Some(r.available),
                                ![i].requests = IF r.available THEN Append(@, "data")
                                                ELSE @]
         /\ lastEvent' = Observed(loads[i].ui, lastEvent,
                ProbeEvent(kind, FALSE, r.available, apiAvailable'))
         /\ UNCHANGED <<storeVars, screenVars, latest>>

\* fetch(/api/health) settles: rejected (network error, abort after 3 s),
\* or a response whose status is checked with res.ok
HealthHeaders(i, outcome) ==
    /\ loads[i].pc = "health"
    /\ outcome = "timeout" => loads[i].rank = 1
    /\ IF outcome = "ok"
       THEN /\ loads' = MoveTo(loads, i, "healthBody")
            /\ UNCHANGED <<storeVars, screenVars, doneVars>>
            /\ UNCHANGED <<apiAvailable, firstStored>>
       ELSE ProbeSettles(i, HealthFailure(outcome), outcome)
    /\ UNCHANGED fcVars

\* res.json() of the health response settles
HealthBody(i, body) ==
    /\ loads[i].pc = "healthBody"
    /\ ProbeSettles(i, HealthBodyResult(body), HealthBodyKind(body))
    /\ UNCHANGED fcVars

\* the 300 ms timer of the mock path fires
MockDelay(i) ==
    /\ loads[i].pc = "delay"
    /\ loads[i].rank = 1
    /\ Complete(i, UnavailableResult(loads[i].day), "unavailable")
    /\ UNCHANGED <<apiAvailable, fcVars, histVars>>

\* a fetchHeatZones that sends the data request a second time before it
\* gives up
DataHeadersRetry(i, outcome) ==
    /\ loads[i].pc = "data"
    /\ outcome = "timeout" => loads[i].rank = 1
    /\ IF outcome = "ok"
       THEN /\ loads' = MoveTo(loads, i, "dataBody")
            /\ UNCHANGED <<storeVars, screenVars, doneVars>>
       ELSE IF Len(SelectSeq(loads[i].requests, LAMBDA q : q = "data")) < 2
       THEN /\ loads' = [MoveTo(loads, i, "data")
                            EXCEPT ![i].requests = Append(@, "data")]
            /\ UNCHANGED <<storeVars, screenVars, doneVars>>
       ELSE Complete(i, CatchFallback(loads[i].day), outcome)
    /\ UNCHANGED <<apiAvailable, fcVars, histVars>>

\* fetchWithTimeout(/api/map) settles
DataHeaders(i, outcome) ==
    /\ loads[i].pc = "data"
    /\ outcome = "timeout" => loads[i].rank = 1
    /\ IF outcome = "ok"
       THEN /\ loads' = MoveTo(loads, i, "dataBody")
            /\ UNCHANGED <<storeVars, screenVars, doneVars>>
       ELSE Complete(i, CatchFallback(loads[i].day), outcome)
    /\ UNCHANGED <<apiAvailable, fcVars, histVars>>

\* res.json() of the map response settles
DataBody(i, body) ==
    /\ loads[i].pc = "dataBody"
    /\ Complete(i, MapBodyResult(body, loads[i].day), BodyCause(body))
    /\ UNCHANGED <<apiAvailable, fcVars, histVars>>

\* export function isApiConnected()
isApiConnected == apiAvailable = Some(TRUE)

\* export function resetApiCache()
ResetApiCache ==
    /\ apiAvailable' = Null
    /\ firstStored' = Null
    /\ UNCHANGED <<storeVars, screenVars, loads, fcVars, doneVars>>

\* a caller other than the dashboard calls fetchHeatZones(date, dayOffset)
CallFetchHeatZones(dayOffset) ==
    /\ ~mounted
    /\ Len(loads) < MaxPending
    /\ loads' = WithNewLoad(dayOffset, FALSE)
    /\ UNCHANGED <<storeVars, screenVars, apiAvailable, fcVars, firstStored, doneVars>>

(***************************************************************************)
(* DashboardScreen (map): mount and event handlers                         *)
(***************************************************************************)
\* the error screen replaces the map, the slider and the alert card
ErrorScreen == error # Null /\ Len(zones) = 0

\* a Step 1 effect that does not test locationRequested
GeoEffectUnguarded(requested) == TRUE

\* Step 1 gets past if (locationRequested) return
GeoEffectRequests(requested) == ~requested

\* the screen is rendered for the first time or again: Step 1 sets
\* locationRequested and asks for the position unless locationRequested, and
\* runs once more when locationRequested changed; Step 2 and Step 3 run on
\* the store as it is (Step 3 with the nearbyZones of that render, and again
\* after setNearbyZones), and loadZones(0) starts
Mount ==
    /\ ~mounted
    /\ Len(loads) < MaxPending
    /\ Len(timers) < MaxTimers
    /\ mounted' = TRUE
    /\ LET first  == GeoEffectRequests(locationRequested)
           second == ~locationRequested /\ GeoEffectRequests(TRUE)
           n      == (IF first THEN 1 ELSE 0) + (IF second THEN 1 ELSE 0)
       IN  /\ locationRequested' = TRUE
           /\ IF n = 0
              THEN UNCHANGED <<geo, geoRequests>>
              ELSE \E supported \in BOOLEAN :
                      IF supported
                      THEN /\ geo' = "pending"
                           /\ geoRequests' = Min(MaxCount, geoRequests + n)
                      ELSE /\ geo' = "unsupported"
                           /\ UNCHANGED geoRequests
    /\ LET nearby == FilterNearby(zones, userLocation)
           first  == AutoSelectEffect(nearbyZones, userLocation, hasAutoSelected, timers)
           second == AutoSelectEffect(nearby, userLocation, first.latch, first.timers)
       IN  /\ nearbyZones' = nearby
           /\ hasAutoSelected' = second.latch
           /\ timers' = second.timers
           /\ fired' = Fired(timers, second.timers)
    /\ loading' = TRUE
    /\ error' = Null
    /\ loads' = WithNewLoad(0, TRUE)
    /\ latest' = Null
    /\ UNCHANGED <<zones, selectedZone, selectedDay, region, isLive, userLocation>>
    /\ UNCHANGED <<apiAvailable, fcVars, firstStored, lastEvent>>

\* getCurrentPosition success callback: setUserLocation, setRegion.  While
\* the screen is mounted the render that follows runs Step 2 and Step 3 with the nearbyZones of that
\* render (the old ones); the render after setNearbyZones runs Step 3 again
GeoSuccess(loc) ==
    /\ geo = "pending"
    /\ geo' = "done"
    /\ userLocation' = Some(loc)
    /\ region' = [latitude |-> loc.latitude * 100, longitude |-> loc.longitude * 100,
                  latitudeDelta |-> 20000, longitudeDelta |-> 20000]
    /\ IF mounted
       THEN LET nearby == FilterNearby(zones, Some(loc))
                first  == AutoSelectEffect(nearbyZones, Some(loc), hasAutoSelected, timers)
                second == AutoSelectEffect(nearby, Some(loc), first.latch, first.timers)
            IN  /\ nearbyZones' = nearby
                /\ hasAutoSelected' = second.latch
                /\ timers' = second.timers
                /\ fired' = Fired(timers, second.timers)
       ELSE UNCHANGED <<nearbyZones, hasAutoSelected, timers, fired>>
    /\ UNCHANGED <<zones, selectedZone, selectedDay, loading, error, isLive,
                   locationRequested, mounted, geoRequests>>
    /\ UNCHANGED <<zoneCliVars, fcVars, histVars, doneVars>>

\* an error callback that goes on with a default position (central Bangkok)
GeoErrorUsesDefault ==
    /\ geo = "pending"
    /\ geo' = "failed"
    /\ userLocation' = Some([latitude |-> 1375, longitude |-> 10050])
    /\ IF mounted
       THEN LET nearby == FilterNearby(zones, userLocation')
                first  == AutoSelectEffect(nearbyZones, userLocation', hasAutoSelected, timers)
                second == AutoSelectEffect(nearby, userLocation', first.latch, first.timers)
            IN  /\ nearbyZones' = nearby
                /\ hasAutoSelected' = second.latch
                /\ timers' = second.timers
                /\ fired' = Fired(timers, second.timers)
       ELSE UNCHANGED <<nearbyZones, hasAutoSelected, timers, fired>>
    /\ UNCHANGED <<zones, selectedZone, selectedDay, loading, error, region, isLive,
                   locationRequested, mounted, geoRequests>>
    /\ UNCHANGED <<zoneCliVars, fcVars, histVars, doneVars>>

\* getCurrentPosition error callback (denied, unavailable, 10 s timeout)
GeoError ==
    /\ geo = "pending"
    /\ geo' = "failed"
    /\ UNCHANGED <<storeVars, mounted, hasAutoSelected, timers, fired, geoRequests>>
    /\ UNCHANGED <<zoneCliVars, fcVars, histVars, doneVars>>

\* the screen leaves the tree: its ref is dropped; the store, the pending
\* loads, the pending position request and the pending timers stay
Unmount ==
    /\ mounted
    /\ mounted' = FALSE
    /\ hasAutoSelected' = FALSE
    /\ UNCHANGED <<storeVars, geo, timers, fired, geoRequests>>
    /\ UNCHANGED <<zoneCliVars, fcVars, histVars, doneVars>>

\* handleDayChange(day): setSelectedDay, clearSelection, latch reset,
\* loadZones(day)
HandleDayChange(day) ==
    /\ mounted
    /\ ~ErrorScreen
    /\ Len(loads) < MaxPending
    /\ Len(timers) < MaxTimers
    /\ selectedDay' = day
    /\ selectedZone' = Null
    /\ hasAutoSelected' = FALSE
    /\ fired' = 0
    /\ loading' = TRUE
    /\ error' = Null
    /\ loads' = WithNewLoad(day, TRUE)
    /\ latest' = Null
    /\ UNCHANGED <<zones, nearbyZones, region, isLive, userLocation, locationRequested>>
    /\ UNCHANGED <<mounted, geo, geoRequests, timers, apiAvailable, fcVars,
                   firstStored, lastEvent>>

\* handleZonePress(zone): a tap on a zone drawn on the map; the loading
\* overlay covers the map while loading is true
HandleZonePress(k) ==
    /\ mounted
    /\ ~ErrorScreen
    /\ ~loading
    /\ k \in 1..Min(MaxTap, Len(nearbyZones))
    /\ selectedZone' = Some(nearbyZones[k])
    /\ UNCHANGED <<zones, nearbyZones, selectedDay, loading, error, region, isLive,
                   userLocation, locationRequested>>
    /\ UNCHANGED <<screenVars, zoneCliVars, fcVars, histVars, doneVars>>

\* handleCloseAlert: the alert card is shown for a selected zone
HandleCloseAlert ==
    /\ mounted
    /\ ~ErrorScreen
    /\ selectedZone # Null
    /\ selectedZone' = Null
    /\ UNCHANGED <<zones, nearbyZones, selectedDay, loading, error, region, isLive,
                   userLocation, locationRequested>>
    /\ UNCHANGED <<screenVars, zoneCliVars, fcVars, histVars, doneVars>>

\* setTimeout(() => selectZone(closestZone), 1500) fires; the timers have
\* the same delay, so they fire in the order they were set
SelectZoneTimer ==
    /\ timers # <<>>
    /\ selectedZone' = Some(Head(timers))
    /\ timers' = Tail(timers)
    /\ UNCHANGED <<zones, nearbyZones, selectedDay, loading, error, region, isLive,
                   userLocation, locationRequested>>
    /\ UNCHANGED <<mounted, hasAutoSelected, geo, fired, geoRequests>>
    /\ UNCHANGED <<zoneCliVars, fcVars, histVars, doneVars>>

(***************************************************************************)
(* Forecast client: setUseMockData, checkApiAvailability, fetchPrediction  *)
(* and fetchForecast                                                       *)
(*                                                                         *)
(* A pending call is a record: op, pc ("health", "delay" for the 400 ms    *)
(* timer, "data", "dataBody"), avail (the isLive it computed), probed (it  *)
(* issued a health request), rank as in the zones client, and the history *)
(* values forcedAtCall (forceMockMode was true when it was called) and     *)
(* dueAtCall (freshDue when it was called).                                *)
(***************************************************************************)
\* bodies of a 2xx /api/predict or /api/forecast response
FcBodies ==
    { [kind |-> "badjson", status |-> "ok"],
      [kind |-> "null",    status |-> "ok"],
      [kind |-> "object",  status |-> "error"],
      [kind |-> "object",  status |-> "ok"] }

\* a fetch that asks the cache whatever forceMockMode is
FcCachedOnly == fcApiAvailable

\* forceMockMode === true ? false : await checkApiAvailability(), as far as
\* it is decided without a request: null means the health request is needed
FcIsLiveAtCall ==
    IF forceMockMode = Some(TRUE) THEN Some(FALSE) ELSE fcApiAvailable

FcNewCall(op) ==
    LET live == FcIsLiveAtCall
    IN  [op           |-> op,
         pc           |-> IF live = Null THEN "health"
                          ELSE IF live[1] THEN "data" ELSE "delay",
         rank         |-> RankIn(calls, IF live = Null THEN "health"
                                        ELSE IF live[1] THEN "data" ELSE "delay"),
         avail        |-> live,
         requests     |-> IF live = Null THEN <<"health">>
                          ELSE IF live[1] THEN <<"data">> ELSE <<>>,
         probed       |-> live = Null,
         forcedAtCall |-> forceMockMode = Some(TRUE),
         dueAtCall    |-> freshDue]

\* apiAvailable = res.ok, or false in the catch; the body is not read
FcHealthAvailable(outcome) == outcome = "ok"

\* data.status === 'error' throws, as do a body that is not JSON and
\* reading .status of null
FcBodyThrows(body) ==
    body.kind = "badjson" \/ body.kind = "null" \/ body.status = "error"

FcDoneEvent(c, data) ==
    [type |-> "done", client |-> "forecast", op |-> c.op, data |-> data,
     probed |-> c.probed, dataRequested |-> c.pc \in {"data", "dataBody"},
     requests |-> c.requests,
     forcedAtCall |-> c.forcedAtCall, dueAtCall |-> c.dueAtCall]

\* the call resolves with MOCK_PREDICTION / generateMockForecast() ("mock")
\* or with the parsed body ("live")
FcComplete(i, data) ==
    /\ calls' = Remove(calls, i)
    /\ lastEvent' = Some(FcDoneEvent(calls[i], data))
    /\ UNCHANGED <<forceMockMode, fcApiAvailable, freshDue>>

\* export function setUseMockData(value)
SetUseMockData(value) ==
    /\ forceMockMode' = Some(value)
    /\ fcApiAvailable' = IF value THEN Some(FALSE) ELSE Null
    /\ freshDue' = IF value THEN FALSE
                   ELSE IF forceMockMode = Some(TRUE) THEN TRUE ELSE freshDue
    /\ UNCHANGED <<calls, lastEvent>>
    /\ UNCHANGED <<storeVars, screenVars, zoneCliVars, histVars, latest>>

\* export function getUseMockData(), read by the MOCK / LIVE badge
getUseMockData ==
    IF forceMockMode # Null THEN forceMockMode[1] ELSE fcApiAvailable = Some(FALSE)

\* fetchPrediction() / fetchForecast(7) up to the first suspension
CallFetch(op) ==
    /\ Len(calls) < MaxCalls
    /\ calls' = Append(calls, FcNewCall(op))
    /\ freshDue' = FALSE
    /\ UNCHANGED <<forceMockMode, fcApiAvailable, lastEvent>>
    /\ UNCHANGED <<storeVars, screenVars, zoneCliVars, histVars, latest>>

\* fetch(/api/health) settles; body is the payload of a 2xx response
FcHealthSettles(i, outcome, body) ==
    /\ calls[i].pc = "health"
    /\ outcome = "timeout" => calls[i].rank = 1
    /\ LET b == FcHealthAvailable(outcome)
       IN  /\ fcApiAvailable' = Some(b)
           /\ calls' = [MoveTo(calls, i, IF b THEN "data" ELSE "delay")
                         EXCEPT ![i].avail = Some(b),
                                ![i].requests = IF b THEN Append(@, "data") ELSE @]
           /\ lastEvent' = Some(
                  [type |-> "probe", client |-> "forecast",
                   kind |-> IF outcome = "ok" THEN HealthBodyKind(body) ELSE outcome,
                   avail |-> Some(b), cache |-> fcApiAvailable'])
    /\ UNCHANGED <<forceMockMode, freshDue>>
    /\ UNCHANGED <<storeVars, screenVars, zoneCliVars, histVars, latest>>

\* the 400 ms timer of the mock path fires
FcMockDelay(i) ==
    /\ calls[i].pc = "delay"
    /\ calls[i].rank = 1
    /\ FcComplete(i, "mock")
    /\ UNCHANGED <<storeVars, screenVars, zoneCliVars, histVars, latest>>

\* fetchWithTimeout of the data request settles
FcDataHeaders(i, outcome) ==
    /\ calls[i].pc = "data"
    /\ outcome = "timeout" => calls[i].rank = 1
    /\ IF outcome = "ok"
       THEN /\ calls' = MoveTo(calls, i, "dataBody")
            /\ UNCHANGED <<forceMockMode, fcApiAvailable, freshDue, lastEvent>>
       ELSE FcComplete(i, "mock")
    /\ UNCHANGED <<storeVars, screenVars, zoneCliVars, histVars, latest>>

\* res.json() of the data response settles
FcDataBody(i, body) ==
    /\ calls[i].pc = "dataBody"
    /\ FcComplete(i, IF FcBodyThrows(body) THEN "mock" ELSE "live")
    /\ UNCHANGED <<storeVars, screenVars, zoneCliVars, histVars, latest>>

(***************************************************************************)
(* Forecast client: mock forecast                                          *)
(***************************************************************************)
\* generateMockForecast(): record i (from 0) has day i + 1 and the date
\* i + 1 days after today; its random probability and weather are left out
generateMockForecast ==
    [days      |-> MOCK_FORECAST_DAYS,
     forecasts |-> [i \in 1..MOCK_FORECAST_DAYS |-> [day |-> i, daysAhead |-> i]]]

\* what fetchForecast(days) returns on its mock paths
MockForecastResult(days) == generateMockForecast

(***************************************************************************)
(* The proximity functions on their own: an effect run once on given zones *)
(* and a given userLocation, recorded in lastEvent with what it produced   *)
(***************************************************************************)
\* Step 2 run on zs and loc: result is the list passed to setNearbyZones
ApplyFilterNearby(zs, loc) ==
    /\ lastEvent = Null
    /\ lastEvent' = Some([type |-> "filterNearby", client |-> "screen",
                          zones |-> zs, loc |-> loc,
                          result |-> FilterNearby(zs, loc)])
    /\ UNCHANGED <<storeVars, screenVars, zoneCliVars, fcVars, histVars, latest>>

\* Step 3 run on zs and loc with the latch open: result holds the zone passed
\* to setTimeout(selectZone), if any
ApplyAutoSelect(zs, loc) ==
    /\ lastEvent = Null
    /\ lastEvent' = Some([type |-> "selectClosest", client |-> "screen",
                          zones |-> zs, loc |-> loc,
                          result |-> AutoSelectEffect(zs, loc, FALSE, <<>>).timers])
    /\ UNCHANGED <<storeVars, screenVars, zoneCliVars, fcVars, histVars, latest>>

\* Step 2 and then Step 3 run on zs and loc, as after a load that completes
\* when the position is known: nearby is the list passed to setNearbyZones
\* and result holds the zone passed to setTimeout(selectZone), if any
ApplyFilterThenSelect(zs, loc) ==
    /\ lastEvent = Null
    /\ LET nearby == FilterNearby(zs, loc)
       IN  lastEvent' = Some([type |-> "filterThenSelect", client |-> "screen",
                              zones |-> zs, loc |-> loc, nearby |-> nearby,
                              result |-> AutoSelectEffect(nearby, loc, FALSE, <<>>).timers])
    /\ UNCHANGED <<storeVars, screenVars, zoneCliVars, fcVars, histVars, latest>>

\* degreeDistance from a to b and from b to a (their squares)
ApplyDegreeDistance(a, b) ==
    /\ lastEvent = Null
    /\ lastEvent' = Some([type |-> "degreeDistance", client |-> "screen",
                          from |-> a, to |-> b,
                          result  |-> degreeDistanceSq(a.lat, a.lon, b.lat, b.lon),
                          swapped |-> degreeDistanceSq(b.lat, b.lon, a.lat, a.lon)])
    /\ UNCHANGED <<storeVars, screenVars, zoneCliVars, fcVars, histVars, latest>>

\* generateMockZones(dayOffset) for a day of the time slider
ApplyGenerateMockZones(dayOffset) ==
    /\ lastEvent = Null
    /\ lastEvent' = Some([type |-> "mockZones", client |-> "zones",
                          day |-> dayOffset, result |-> generateMockZones(dayOffset)])
    /\ UNCHANGED <<storeVars, screenVars, zoneCliVars, fcVars, histVars, latest>>

\* fetchForecast(days) served from mock data
ApplyMockForecast(days) ==
    /\ lastEvent = Null
    /\ lastEvent' = Some([type |-> "mockForecast", client |-> "forecast",
                          days |-> days, result |-> MockForecastResult(days)])
    /\ UNCHANGED <<storeVars, screenVars, zoneCliVars, fcVars, histVars, latest>>

(***************************************************************************)
(* Specifications                                                          *)
(***************************************************************************)
ClientStep ==
    \E i \in 1..Len(loads) :
        \/ \E outcome \in HeaderOutcomes : HealthHeaders(i, outcome)
        \/ \E body \in HealthBodies : HealthBody(i, body)
        \/ MockDelay(i)
        \/ \E outcome \in HeaderOutcomes : DataHeaders(i, outcome)
        \/ \E body \in MapBodies : DataBody(i, body)

\* the dashboard session with the zones client
Next ==
    \/ Mount
    \/ \E loc \in UserLocs : GeoSuccess(loc)
    \/ GeoError
    \/ \E day \in Days : HandleDayChange(day)
    \/ \E k \in 1..MaxTap : HandleZonePress(k)
    \/ HandleCloseAlert
    \/ SelectZoneTimer
    \/ ClientStep

Spec == Init /\ [][Next]_vars

\* a timer of pending call i fires: the 3 s abort of the health request, the
\* 300 ms mock delay, the 30 s abort of the data request
TimerFires(i) ==
    /\ i <= Len(loads)
    /\ \/ HealthHeaders(i, "timeout")
       \/ MockDelay(i)
       \/ DataHeaders(i, "timeout")

\* the event loop runs every timer that is due; nothing makes the upstream
\* answer, or finish a response it began (HealthBody and DataBody run after
\* clearTimeout, with no timer behind them)
TimersFair ==
    \A i \in 1..MaxPending : WF_vars(TimerFires(i))

\* the dashboard of a user who only changes the day, on an event loop that
\* runs its timers
NextLive ==
    \/ Mount
    \/ \E day \in Days : HandleDayChange(day)
    \/ ClientStep

SpecLive == Init /\ [][NextLive]_vars /\ TimersFair

\* the dashboard in a navigator that unmounts the screen, with a user who
\* only enters and leaves it
NextRemount ==
    \/ Mount
    \/ Unmount
    \/ \E loc \in UserLocs : GeoSuccess(loc)
    \/ GeoError
    \/ SelectZoneTimer
    \/ ClientStep

SpecRemount == Init /\ [][NextRemount]_vars

\* the functions applied to given inputs: the proximity filter and the
\* closest-zone scan to zone lists, the mock generators to their arguments
NextPure ==
    \/ \E zs \in ZoneLists, loc \in ProxLocs : ApplyFilterNearby(zs, loc)
    \/ \E zs \in PoolLists, loc \in ProxLocs : ApplyAutoSelect(zs, loc)
    \/ \E dayOffset \in 0..LAST_DAY : ApplyGenerateMockZones(dayOffset)
    \/ \E days \in 1..MaxForecastDays : ApplyMockForecast(days)
    \/ \E a, b \in DistPoints : ApplyDegreeDistance(a, b)
    \/ \E zs \in PoolLists \cup BeyondSliceLists, loc \in ProxLocs :
          ApplyFilterThenSelect(zs, loc)

SpecPure == Init /\ [][NextPure]_vars

\* the zones client on its own, called by any caller
NextZonesClient ==
    \/ \E day \in Days : CallFetchHeatZones(day)
    \/ ResetApiCache
    \/ ClientStep

SpecZonesClient == Init /\ [][NextZonesClient]_vars

\* the forecast client with its callers (dashboard, forecast screen,
\* settings switch)
NextForecast ==
    \/ \E op \in {"prediction", "forecast"} : CallFetch(op)
    \/ \E value \in BOOLEAN : SetUseMockData(value)
    \/ \E i \in 1..Len(calls) :
          \/ \E outcome \in HeaderOutcomes, body \in HealthBodies :
                FcHealthSettles(i, outcome, body)
          \/ FcMockDelay(i)
          \/ \E outcome \in HeaderOutcomes : FcDataHeaders(i, outcome)
          \/ \E body \in FcBodies : FcDataBody(i, body)

SpecForecast == Init /\ [][NextForecast]_vars

(***************************************************************************)
(* Properties                                                              *)
(***************************************************************************)
\* ways the /api/map request of the live path fails: fetch rejected (network
\* error, abort by the 30 s timer), a non-2xx status, a body res.json()
\* rejects on, a 2xx body with an error message
DataFailureKinds == {"neterr", "timeout", "non2xx", "badjson", "errorfield"}

\* the /api/map request succeeded: a parsed 2xx body without an error whose
\* features were transformed
DataSuccessKinds == {"ok", "nofeatures"}

IsDone(e) == e # Null /\ e[1].type = "done" /\ e[1].client = "zones"
IsProbe(e) == e # Null /\ e[1].type = "probe" /\ e[1].client = "zones"
IsFcDone(e) == e # Null /\ e[1].type = "done" /\ e[1].client = "forecast"
IsFcProbe(e) == e # Null /\ e[1].type = "probe" /\ e[1].client = "forecast"

\* C1: fetchHeatZones never rejects; a call whose data request failed
\* (network error, non-2xx, abort, unparsable body, error field) resolved
\* with generateMockZones(dayOffset) and isLive false, and a call resolved
\* with isLive true only after a data request that succeeded.
C1_FetchHeatZonesNeverRejects ==
    IsDone(lastEvent) =>
        LET e == lastEvent[1]
        IN  /\ ~e.rejected
            /\ e.kind \in DataFailureKinds =>
                   /\ e.result.zones = generateMockZones(e.day)
                   /\ e.result.isLive = FALSE
            /\ e.result.isLive => e.kind \in DataSuccessKinds /\ e.avail = Some(TRUE)

C1_Witness ==
    /\ IsDone(lastEvent)
    /\ lastEvent[1].kind = "errorfield"
    /\ lastEvent[1].day = 1
    /\ lastEvent[1].result.zones = generateMockZones(1)
    /\ lastEvent[1].result.zones # generateMockZones(0)

\* C2: once every pending load of the dashboard has completed, zones and
\* isLive are the result of the load that was started last, whatever the
\* order in which the loads completed.
C2_StaleLoadNeverWins ==
    (mounted /\ loads = <<>> /\ latest # Null) =>
        /\ zones = latest[1].zones
        /\ isLive = latest[1].isLive

\* C3: a fetchHeatZones call made after a health probe completed and stored
\* its result (and before resetApiCache) gets that same boolean from
\* checkApiAvailability and issues no health request.
C3_CachedAvailabilityStable ==
    \A i \in 1..Len(loads) :
        loads[i].storedAtCall # Null =>
            /\ loads[i].avail = loads[i].storedAtCall
            /\ loads[i].pc \notin {"health", "healthBody"}

\* C4: selectedZone is null or the id of selectedZone is the id of a zone
\* of the current zones.
C4_SelectedZoneInZones ==
    selectedZone # Null =>
        \E k \in 1..Len(zones) : zones[k].id = selectedZone[1].id

\* C5: in the forecast client too, a 2xx health response whose payload does
\* not confirm that the model is loaded makes checkApiAvailability resolve
\* false.
C5_HealthNeedsModelLoaded ==
    (IsFcProbe(lastEvent)
        /\ lastEvent[1].kind \in {"unconfirmed", "badjson", "nullbody"}) =>
        lastEvent[1].avail = Some(FALSE)

\* C6: checkApiAvailability never rejects (so no fetchHeatZones call rejects
\* because of it), and a network error, an abort by the 3 s timer, a non-2xx
\* status or an unparsable body make it return false and store false.
C6_CheckApiAvailabilityNeverRejects ==
    /\ IsDone(lastEvent) => ~lastEvent[1].rejected
    /\ IsProbe(lastEvent) =>
          /\ ~lastEvent[1].rejected
          /\ lastEvent[1].kind \in {"neterr", "timeout", "non2xx", "badjson"} =>
                 /\ lastEvent[1].avail = Some(FALSE)
                 /\ lastEvent[1].cache = Some(FALSE)

C6_Witness ==
    /\ IsProbe(lastEvent)
    /\ lastEvent[1].kind = "badjson"
    /\ lastEvent[1].avail = Some(FALSE)
    /\ apiAvailable = Some(FALSE)
    /\ \E i \in 1..Len(loads) : loads[i].pc = "delay" /\ loads[i].avail = Some(FALSE)

\* C7: the first fetchPrediction / fetchForecast call made after
\* setUseMockData(true) was followed by setUseMockData(false) issues a health
\* request of its own.
C7_FreshProbeAfterForcedMock ==
    /\ \A i \in 1..Len(calls) : calls[i].dueAtCall => calls[i].probed
    /\ IsFcDone(lastEvent) => (lastEvent[1].dueAtCall => lastEvent[1].probed)

\* C8: a fetchPrediction / fetchForecast call made while forceMockMode is
\* true issues no health request and no data request and resolves with mock
\* data, whatever the apiAvailable cache holds.
C8_ForcedMockIssuesNoRequest ==
    /\ \A i \in 1..Len(calls) :
          calls[i].forcedAtCall =>
              /\ ~calls[i].probed
              /\ calls[i].pc = "delay"
              /\ calls[i].avail = Some(FALSE)
    /\ (IsFcDone(lastEvent) /\ lastEvent[1].forcedAtCall) =>
          /\ lastEvent[1].data = "mock"
          /\ ~lastEvent[1].probed
          /\ ~lastEvent[1].dataRequested

\* a call made under forced mock resolved with mock data although a health
\* probe that was in flight before the override stored true after it
C8_Witness ==
    /\ IsFcDone(lastEvent)
    /\ lastEvent[1].forcedAtCall
    /\ lastEvent[1].data = "mock"
    /\ forceMockMode = Some(TRUE)
    /\ fcApiAvailable = Some(TRUE)

\* C9: a fetchHeatZones call whose 2xx /api/map body has no features array,
\* or a feature without geometry or without properties, resolves with the
\* mock zones of its dayOffset and isLive false, and does not reject.
C9_MissingFieldsFallBack ==
    (IsDone(lastEvent)
        /\ lastEvent[1].kind \in {"nofeatures", "nogeometry", "noproperties"}) =>
        /\ ~lastEvent[1].rejected
        /\ lastEvent[1].result.isLive = FALSE
        /\ lastEvent[1].result.zones = generateMockZones(lastEvent[1].day)

C11_PositionRequestedOnce ==
    /\ [](geoRequests <= 1 /\ (geoRequests = 1 => locationRequested))
    /\ [][locationRequested => locationRequested']_vars

\* the screen was mounted again after the position had been requested and
\* resolved: its fresh latch let the auto-selection fire a second time
C11_Witness ==
    /\ mounted
    /\ locationRequested
    /\ geoRequests = 1
    /\ geo = "done"
    /\ fired = 2

\* reference geometry of the pool zones, from the centres they were built
\* around
RowOf(z) == CHOOSE row \in PoolRows : row.id = z.id
HasCentre(z) == RowOf(z).points
RefDistSq(loc, z) ==
    (loc.latitude - RowOf(z).lat) * (loc.latitude - RowOf(z).lat)
    + (loc.longitude - RowOf(z).lon) * (loc.longitude - RowOf(z).lon)
RefWithin(loc, z) ==
    HasCentre(z) /\ RefDistSq(loc, z) <= PROXIMITY_RADIUS * PROXIMITY_RADIUS
RefUser == [latitude |-> 1375, longitude |-> 10050]
ZoneOfId(id) == PoolZone(CHOOSE row \in PoolRows : row.id = id, 3300)

IsFilterRun(e) == e # Null /\ e[1].type = "filterNearby"
IsScanRun(e) == e # Null /\ e[1].type = "selectClosest"

\* C12: with a user location, a non-empty zone list and no zone within the
\* radius the filter yields the first 50 zones in order (all when there are
\* fewer), and for every input a non-empty zone list yields a non-empty
\* nearbyZones.
C12_FallbackToFirstFifty ==
    IsFilterRun(lastEvent) =>
        LET e == lastEvent[1]
        IN  /\ (e.loc # Null /\ Len(e.zones) > 0
                  /\ \A k \in 1..Len(e.zones) : ~RefWithin(e.loc[1], e.zones[k])) =>
                   /\ Len(e.result) = Min(50, Len(e.zones))
                   /\ \A k \in 1..Len(e.result) : e.result[k] = e.zones[k]
            /\ Len(e.zones) > 0 => Len(e.result) > 0

\* 51 zones, none within the radius: the first 50 are kept, the last is not
C12_Witness ==
    /\ IsFilterRun(lastEvent)
    /\ lastEvent[1].loc = Some(RefUser)
    /\ Len(lastEvent[1].zones) = 51
    /\ Len(lastEvent[1].result) = 50
    /\ lastEvent[1].result[50] = lastEvent[1].zones[50]

\* C13: with a user location and at least one zone within the radius, the
\* filter yields exactly the zones at degree-distance <= 1.5 from the user, in
\* input order; seen from (13.75, 100.50) the zone centred at (13.76, 100.52)
\* and the one at distance exactly 1.5 are within, the one at (20.0, 100.0)
\* is not.
C13_WithinRadiusExactly ==
    /\ RefWithin(RefUser, ZoneOfId("near"))
    /\ RefWithin(RefUser, ZoneOfId("edge"))
    /\ ~RefWithin(RefUser, ZoneOfId("far"))
    /\ IsFilterRun(lastEvent) =>
          LET e == lastEvent[1]
          IN  (e.loc # Null
                 /\ \E k \in 1..Len(e.zones) : RefWithin(e.loc[1], e.zones[k])) =>
                  e.result = SelectSeq(e.zones, LAMBDA z : RefWithin(e.loc[1], z))

C13_Witness ==
    /\ IsFilterRun(lastEvent)
    /\ lastEvent[1].loc = Some(RefUser)
    /\ lastEvent[1].zones = <<ZoneOfId("far"), ZoneOfId("edge"), ZoneOfId("near")>>
    /\ lastEvent[1].result = <<ZoneOfId("edge"), ZoneOfId("near")>>

\* C14: without a user location, or with an empty zone list, the filter
\* yields the zone list itself.
C14_PassThrough ==
    IsFilterRun(lastEvent) =>
        LET e == lastEvent[1]
        IN  (e.loc = Null \/ Len(e.zones) = 0) => e.result = e.zones

C14_Witness ==
    /\ IsFilterRun(lastEvent)
    /\ lastEvent[1].loc = Null
    /\ lastEvent[1].zones = <<ZoneOfId("far"), ZoneOfId("empty"), ZoneOfId("near")>>
    /\ lastEvent[1].result = lastEvent[1].zones

\* C15: with a user location and a zone list in which some zone has a
\* centroid, the scan selects one zone: a zone with a centroid, no zone is
\* nearer to the user, and no zone before it in the list is as near.
C15_ClosestFirstOnTies ==
    IsScanRun(lastEvent) =>
        LET e == lastEvent[1]
        IN  (e.loc # Null /\ \E k \in 1..Len(e.zones) : HasCentre(e.zones[k])) =>
                /\ Len(e.result) = 1
                /\ \E k \in 1..Len(e.zones) :
                      /\ e.result[1] = e.zones[k]
                      /\ HasCentre(e.zones[k])
                      /\ \A j \in 1..Len(e.zones) :
                            HasCentre(e.zones[j]) =>
                                /\ RefDistSq(e.loc[1], e.zones[j])
                                      >= RefDistSq(e.loc[1], e.zones[k])
                                /\ (j < k =>
                                      RefDistSq(e.loc[1], e.zones[j])
                                          > RefDistSq(e.loc[1], e.zones[k]))

\* two zones at the same, smallest distance: the one met first is selected
C15_Witness ==
    /\ IsScanRun(lastEvent)
    /\ lastEvent[1].loc = Some(RefUser)
    /\ lastEvent[1].zones = <<ZoneOfId("far"), ZoneOfId("tieB"), ZoneOfId("tieA")>>
    /\ lastEvent[1].result = <<ZoneOfId("tieB")>>

IsMockZonesRun(e) == e # Null /\ e[1].type = "mockZones"
IsMockForecastRun(e) == e # Null /\ e[1].type = "mockForecast"

\* C16: every zone of generateMockZones(dayOffset) has the severity its
\* returned probability gives: critical from 0.8, high from 0.6, medium from
\* 0.4, low below.
C16_MockSeverityFollowsProbability ==
    IsMockZonesRun(lastEvent) =>
        \A k \in 1..Len(lastEvent[1].result) :
            LET z == lastEvent[1].result[k]
            IN  /\ z.severity = "critical" <=> z.probability >= 4800
                /\ z.severity = "high" <=> (z.probability >= 3600 /\ z.probability < 4800)
                /\ z.severity = "medium" <=> (z.probability >= 2400 /\ z.probability < 3600)
                /\ z.severity = "low" <=> z.probability < 2400

\* on day 4 cm-north, written as low in the table, has reached 0.404 and is
\* returned as medium
C16_Witness ==
    /\ IsMockZonesRun(lastEvent)
    /\ lastEvent[1].day = 4
    /\ \E k \in 1..Len(lastEvent[1].result) :
          /\ lastEvent[1].result[k].id = "cm-north"
          /\ lastEvent[1].result[k].probability = 2424
          /\ lastEvent[1].result[k].severity = "medium"
          /\ MockTable[k].severity = "low"

\* C17: a fetchHeatZones call whose health probe was aborted by the 3 s
\* timer resolves with isLive false and exactly 9 mock zones, each with a
\* closed ring of at least 4 points.
C17_NineMockZonesAfterTimeout ==
    (IsDone(lastEvent) /\ lastEvent[1].kind = "unavailable") =>
        /\ lastEvent[1].avail = Some(FALSE)
        /\ lastEvent[1].result.isLive = FALSE
        /\ Len(lastEvent[1].result.zones) = 9
        /\ \A k \in 1..Len(lastEvent[1].result.zones) :
              LET ring == lastEvent[1].result.zones[k].ring
              IN  Len(ring) >= 4 /\ ring[1] = ring[Len(ring)]

\* C20: fetchForecast(days) served from mock data returns exactly days
\* records, numbered 1..days, on consecutive dates.
C20_MockForecastHasDaysRecords ==
    IsMockForecastRun(lastEvent) =>
        LET e == lastEvent[1]
        IN  /\ Len(e.result.forecasts) = e.days
            /\ \A i \in 1..Len(e.result.forecasts) :
                  /\ e.result.forecasts[i].day = i
                  /\ i > 1 => e.result.forecasts[i].daysAhead
                                 = e.result.forecasts[i - 1].daysAhead + 1

\* C18: whatever the upstream does (never answering, or stopping in the
\* middle of a response), the loading flag of the mounted dashboard always
\* returns to false, its fetchHeatZones call having resolved.
C18_LoadingEventuallyClears == (mounted /\ loading) ~> ~loading

\* how many requests of a kind a call has issued
RequestsOf(reqs, q) == Len(SelectSeq(reqs, LAMBDA x : x = q))

AtMostOneEach(reqs) ==
    RequestsOf(reqs, "health") <= 1 /\ RequestsOf(reqs, "data") <= 1

\* C19: a fetchHeatZones call issues at most one health request and at most
\* one data request, while it is pending and when it resolves; a call whose
\* data request failed resolves right then with the mock zones, having sent
\* that one data request and nothing after it.
C19_NoRetryOneFallback ==
    /\ \A i \in 1..Len(loads) : AtMostOneEach(loads[i].requests)
    /\ IsDone(lastEvent) =>
          /\ AtMostOneEach(lastEvent[1].requests)
          /\ lastEvent[1].kind \in DataFailureKinds =>
                /\ RequestsOf(lastEvent[1].requests, "data") = 1
                /\ lastEvent[1].requests[Len(lastEvent[1].requests)] = "data"
                /\ lastEvent[1].result = CatchFallback(lastEvent[1].day)

\* a call that probed, was told the backend is up, and whose one data
\* request timed out
C19_Witness ==
    /\ IsDone(lastEvent)
    /\ lastEvent[1].kind = "timeout"
    /\ lastEvent[1].requests = <<"health", "data">>
    /\ lastEvent[1].result.isLive = FALSE
    /\ Len(lastEvent[1].result.zones) > 0

\* the same for fetchPrediction and fetchForecast, under SpecForecast
C19_ForecastNoRetryOneFallback ==
    /\ \A i \in 1..Len(calls) : AtMostOneEach(calls[i].requests)
    /\ IsFcDone(lastEvent) =>
          /\ AtMostOneEach(lastEvent[1].requests)
          /\ (lastEvent[1].dataRequested /\ lastEvent[1].data = "mock") =>
                /\ RequestsOf(lastEvent[1].requests, "data") = 1
                /\ lastEvent[1].requests[Len(lastEvent[1].requests)] = "data"

\* the zone list without its zones whose ring has no points
WithoutDegenerate(zs) == SelectSeq(zs, LAMBDA z : Len(z.ring) > 0)

\* the scan part of C21: a zone whose ring has no points is never selected
\* and the scan selects what it selects without it
ScanSkipsDegenerate ==
    IsScanRun(lastEvent) =>
        LET e == lastEvent[1]
        IN  e.loc # Null =>
                /\ \A k \in 1..Len(e.result) : Len(e.result[k].ring) > 0
                /\ e.result = AutoSelectEffect(WithoutDegenerate(e.zones), e.loc,
                                               FALSE, <<>>).timers

\* C21: with a user location and a zone list holding a zone whose ring has
\* no points, the filter and the scan complete, the degenerate zone is not
\* in nearbyZones and is never selected, and the other zones are treated as
\* if the degenerate zone were absent.
C21_DegenerateZoneSkipped ==
    /\ ScanSkipsDegenerate
    /\ IsFilterRun(lastEvent) =>
          LET e == lastEvent[1]
          IN  e.loc # Null =>
                  /\ \A k \in 1..Len(e.result) : Len(e.result[k].ring) > 0
                  /\ e.result = FilterNearby(WithoutDegenerate(e.zones), e.loc)

GeoAbsent == geo \in {"unsupported", "failed"}

\* C22: once geolocation is unsupported, denied or has failed, userLocation
\* is null, region is the default region, error is unset, the position is
\* not asked for again, nearbyZones of the mounted dashboard is zones, and no
\* auto-selection is made or pending.
C22_NoLocationIsSupported ==
    /\ [](GeoAbsent =>
            /\ userLocation = Null
            /\ region = DEFAULT_REGION
            /\ error = Null
            /\ geoRequests = (IF geo = "failed" THEN 1 ELSE 0)
            /\ mounted => nearbyZones = zones
            /\ timers = <<>>
            /\ fired = 0
            /\ ~hasAutoSelected)
    /\ [][GeoAbsent => (geo' = geo /\ geoRequests' = geoRequests)]_vars

\* the request failed and a load has since brought zones
C22_Witness ==
    /\ geo = "failed"
    /\ mounted
    /\ ~loading
    /\ Len(zones) > 0
    /\ nearbyZones = zones
    /\ userLocation = Null
    /\ selectedZone = Null

IsDistanceRun(e) == e # Null /\ e[1].type = "degreeDistance"

\* C23: degreeDistance between a point and itself is zero, and
\* degreeDistance from a to b is degreeDistance from b to a.
C23_DistanceReflexiveSymmetric ==
    IsDistanceRun(lastEvent) =>
        LET e == lastEvent[1]
        IN  /\ e.from = e.to => e.result = 0
            /\ e.result = e.swapped

\* two points that differ in latitude and in longitude
C23_Witness ==
    /\ IsDistanceRun(lastEvent)
    /\ lastEvent[1].from = [lat |-> 1375, lon |-> 10050]
    /\ lastEvent[1].to = [lat |-> -3387, lon |-> -15121]
    /\ lastEvent[1].result > 0
    /\ lastEvent[1].result = lastEvent[1].swapped

\* C24: loading is true in every state in which a load started by
\* loadZones is still pending, and false only when none is.
C24_LoadingWhilePending ==
    (\E i \in 1..Len(loads) : loads[i].ui) => loading

\* the oldest pending selectZone timer was set before the last
\* handleDayChange: more timers are pending than were set since
HeadTimerPredatesDayChange == Len(timers) > fired

\* C25: a selectZone timer that was pending when the user changed the day
\* does not change selectedZone when it fires; selectedZone keeps what the
\* later action set.
C25_PendingAutoSelectYields ==
    [][(timers # <<>> /\ timers' = Tail(timers) /\ HeadTimerPredatesDayChange)
          => selectedZone' = selectedZone]_vars

\* C26: while setUseMockData has not been called (nothing reset the cache),
\* the fetchPrediction / fetchForecast calls pending at the same time have
\* at most one health request in flight between them.
C26_SingleHealthRequest ==
    forceMockMode = Null =>
        Cardinality({i \in 1..Len(calls) : calls[i].pc = "health"}) <= 1

\* C27: getUseMockData() is true when the data most recently returned by
\* fetchPrediction or fetchForecast is mock data and false when it is live
\* data.
C27_BadgeMatchesData ==
    IsFcDone(lastEvent) => (getUseMockData <=> lastEvent[1].data = "mock")

\* what a load can bring: the transform of a /api/map body that was
\* accepted, or the mock zones of a day
LiveZoneLists ==
    {transformApiFeatures(RawFeatures(body)) : body \in {b \in MapBodies : ~MapBodyThrows(b)}}
MockZoneLists == {generateMockZones(d) : d \in Days}

\* C28: isLive is true only over zones transformed from a live /api/map
\* response and, once a load has completed, false only over mock zones;
\* zones and isLive change only together, in the step in which a load
\* completes.
C28_IsLiveMatchesZones ==
    /\ [](/\ isLive => zones \in LiveZoneLists
          /\ (~isLive /\ (~loading \/ zones # <<>>)) => zones \in MockZoneLists)
    /\ [][(zones' # zones \/ isLive' # isLive)
             => (Len(loads') = Len(loads) - 1 /\ ~loading')]_vars

\* after a day change a live load has completed with zones
C28_Witness ==
    /\ mounted
    /\ ~loading
    /\ isLive
    /\ Len(zones) > 0
    /\ zones \in LiveZoneLists
    /\ zones \notin MockZoneLists
    /\ selectedDay = 1

\* pending load i resolves in this step with the mock zones after its
\* /api/map request failed
FallsBackAfterDataFailure(i) ==
    /\ loads[i].pc \in {"data", "dataBody"}
    /\ loads' = Remove(loads, i)
    /\ ~isLive'

\* C29: when a load of the dashboard (where nothing resets the cache) falls
\* back to mock because its /api/map request failed, the cache holds
\* available after it and isApiConnected() returns true, so the next call
\* goes to the backend without a health probe.
C29_CacheAvailableAfterFallback ==
    [][\A i \in 1..Len(loads) :
          FallsBackAfterDataFailure(i) => isApiConnected']_vars

\* the failed request itself writes nothing to the cache
DataFailureLeavesCache ==
    [][\A i \in 1..Len(loads) :
          FallsBackAfterDataFailure(i) => apiAvailable' = apiAvailable]_vars

IsFilterThenSelectRun(e) == e # Null /\ e[1].type = "filterThenSelect"

\* the far zones of the long lists are told apart by their temperature; all of
\* them lie where the pool zone "far" lies
NearestOfAll(loc, zs, k) ==
    /\ HasCentre(zs[k])
    /\ \A j \in 1..Len(zs) :
          HasCentre(zs[j]) =>
              /\ RefDistSq(loc, zs[j]) >= RefDistSq(loc, zs[k])
              /\ (j < k => RefDistSq(loc, zs[j]) > RefDistSq(loc, zs[k]))

\* C30: with a user location, the zone the auto-selection picks after the
\* filter is the zone of the full zones list whose centroid is nearest to
\* the user, the first such zone on ties, also when no zone is within the
\* radius.
C30_SelectsNearestOfAllZones ==
    IsFilterThenSelectRun(lastEvent) =>
        LET e == lastEvent[1]
        IN  (e.loc # Null /\ \E k \in 1..Len(e.zones) : HasCentre(e.zones[k])) =>
                /\ Len(e.result) = 1
                /\ \E k \in 1..Len(e.zones) :
                      e.result[1] = e.zones[k] /\ NearestOfAll(e.loc[1], e.zones, k)

====
